---------------------------- MODULE Spec2Model ----------------------------
(***************************************************************************)
(* Model of the flowguard rate-limiting gateway.                           *)
(*                                                                         *)
(*   - the counter store (internal/storage/redis.go): Redis keys with a    *)
(*     value and an expiry, INCR / EXPIRE / GET;                           *)
(*   - the admission engine (limiter.RateLimiter): CheckRateLimit and      *)
(*     IncrementRateLimit, bucket keys and reset times derived from the    *)
(*     wall clock;                                                         *)
(*   - the /proxy handler chain of cmd/main.go: Authenticate, RateLimit,   *)
(*     IncrementRateLimit, Proxy, run by concurrent request goroutines.    *)
(*                                                                         *)
(* Time is an integer number of ticks (TicksPerSecond per second) counted  *)
(* from 2023-01-01T00:00:00 UTC.  A request goroutine takes one atomic     *)
(* step per store round trip or upstream exchange; the local computation   *)
(* between two round trips belongs to the step of the round trip that      *)
(* precedes it.                                                            *)
(***************************************************************************)
EXTENDS Integers, Sequences, FiniteSets, TLC

(***************************************************************************)
(* Bounds of the model                                                     *)
(***************************************************************************)
TicksPerSecond == 4     \* resolution of the wall clock
NumProc == 2            \* request goroutines (over all gateway instances)
MaxReq == 3             \* requests served in one behaviour
MaxTicks == 1           \* clock ticks while requests are being served
MaxAdvance == 2         \* clock advances between sequential requests
MaxFaults == 1          \* store operations that fail in one behaviour

Procs == 1..NumProc

(***************************************************************************)
(* package time: durations, time.Date and the calendar fields of a Time    *)
(***************************************************************************)
time_Second == TicksPerSecond
time_Minute == 60 * time_Second
time_Hour == 60 * time_Minute

isLeap(year) == (year % 4 = 0) /\ ((year % 100 # 0) \/ (year % 400 = 0))

\* days before the first of each month in a non-leap year (13 entries)
daysBefore == <<0, 31, 59, 90, 120, 151, 181, 212, 243, 273, 304, 334, 365>>

daysBeforeMonth(year, month) ==
    daysBefore[month] + (IF isLeap(year) /\ month >= 3 THEN 1 ELSE 0)

leapsBefore(year) ==
    ((year - 1) \div 4) - ((year - 1) \div 100) + ((year - 1) \div 400)

\* days from the model epoch (2023-01-01) to January 1st of year
daysSinceEpoch(year) ==
    365 * (year - 2023) + leapsBefore(year) - leapsBefore(2023)

\* time.Date(year, month, day, hour, min, sec, 0, loc): out-of-range
\* month, day, hour and min values are normalised by carrying over.
Date(year, month, day, hour, min, sec) ==
    LET m0 == month - 1
        y  == year + (m0 \div 12)
        m  == (m0 % 12) + 1
        d  == daysSinceEpoch(y) + daysBeforeMonth(y, m) + (day - 1)
    IN  (((d * 24 + hour) * 60 + min) * 60 + sec) * time_Second

Years == 2023..2027

\* the calendar date of t: year, month, day (Time.Date)
civil(t) ==
    LET dn == t \div (24 * time_Hour)
        y  == CHOOSE yy \in Years :
                  daysSinceEpoch(yy) <= dn /\ dn < daysSinceEpoch(yy + 1)
        yd == dn - daysSinceEpoch(y)
        m  == CHOOSE mm \in 1..12 :
                  daysBeforeMonth(y, mm) <= yd /\ yd < daysBeforeMonth(y, mm + 1)
    IN  [year |-> y, month |-> m, day |-> yd - daysBeforeMonth(y, m) + 1]

Year(t) == civil(t).year

Month(t) == civil(t).month

Day(t) == civil(t).day

Hour(t) == (t \div time_Hour) % 24

Minute(t) == (t \div time_Minute) % 60

\* t.Sub(u)
Sub(t, u) == t - u

(***************************************************************************)
(* Policy: limiter.RateLimitConfig, fixed at construction                  *)
(***************************************************************************)
Policy(m, h, d, q) ==
    [RequestsPerMinute |-> m, RequestsPerHour |-> h,
     RequestsPerDay |-> d, MonthlyQuota |-> q]

\* every combination of small limits, and one policy whose minute limit of 2
\* is the only one that three requests can reach
Policies ==
    { [RequestsPerMinute |-> m, RequestsPerHour |-> h,
       RequestsPerDay |-> d, MonthlyQuota |-> q] :
         m \in {1, 2}, h \in {1, 2}, d \in {1, 2}, q \in {0, 1, 2} }
    \cup { Policy(2, 3, 3, 3) }

\* the policies under concurrent load: every limit binding at once, the
\* minute limit binding alone, the hour and day limits binding
LoadPolicies == { Policy(1, 1, 1, 1), Policy(1, 2, 2, 2), Policy(2, 1, 1, 2) }

APIKeys == {"k1"}

\* the last tick of January 2024: the next tick starts a new minute, hour,
\* day and month
EndOfMonth == Date(2024, 2, 1, 0, 0, 0) - 1

\* the last tick of a minute inside an hour
EndOfMinute == Date(2024, 3, 15, 10, 31, 0) - 1

\* the middle of a day, the end of a minute, and the end of a month
StartTimes == { Date(2024, 3, 15, 10, 30, 0), EndOfMinute, EndOfMonth }

Deltas == {1, time_Second, time_Hour}

\* the strings another client may leave under a key: not a number, empty,
\* a number followed by a letter, a number
RawValues == { <<"x">>, << >>, <<"1", "x">>, <<"2">> }

VARIABLES
    now,        \* the wall clock, time.Now()
    store,      \* Redis: key -> [val, exp]; only live keys are in the domain
    config,     \* RateLimiter.config
    conc,       \* number of requests the load lets run between check and commit
    req,        \* per goroutine: the request it is serving
    started,    \* requests accepted so far
    advanced,   \* clock advances so far
    faults,     \* failed store operations and foreign writes so far
    commits     \* calls of RateLimiter.IncrementRateLimit that returned nil

vars == <<now, store, config, conc, req, started, advanced, faults, commits>>


(***************************************************************************)
(* Redis: the commands the storage layer issues.  A key that is absent or  *)
(* expired is not in the domain of the store.                              *)
(***************************************************************************)
\* an entry is [val, str, ttl, exp]: str is the stored string, val the integer
\* the server holds for it (0 when the string is not the decimal form of an
\* integer), exp the instant of expiry when ttl is set
Digits == <<"0", "1", "2", "3", "4", "5", "6", "7", "8", "9">>

isDigit(c) == \E i \in 1..Len(Digits) : Digits[i] = c

digitValue(c) == (CHOOSE i \in 1..Len(Digits) : Digits[i] = c) - 1

\* the decimal form of an integer, as INCR stores it
RECURSIVE Itoa(_)
Itoa(n) ==
    IF n < 0 THEN <<"-">> \o Itoa(0 - n)
    ELSE IF n < 10 THEN <<Digits[n + 1]>>
    ELSE Itoa(n \div 10) \o <<Digits[(n % 10) + 1]>>

\* the value of a sequence of digits read after the value acc
RECURSIVE digitsValue(_, _)
digitsValue(str, acc) ==
    IF str = << >> THEN acc
    ELSE digitsValue(Tail(str), 10 * acc + digitValue(Head(str)))

\* mutant: a string that is not a number is read as 0
Atoi_lenient(str) ==
    LET body == IF str # << >> /\ Head(str) \in {"+", "-"} THEN Tail(str) ELSE str
    IN  IF body = << >> \/ \E i \in 1..Len(body) : ~isDigit(body[i])
        THEN [err |-> FALSE, val |-> 0]
        ELSE [err |-> FALSE,
              val |-> IF Head(str) = "-" THEN 0 - digitsValue(body, 0)
                      ELSE digitsValue(body, 0)]

\* strconv.Atoi: an optional sign, then one or more decimal digits
Atoi(str) ==
    LET body == IF str # << >> /\ Head(str) \in {"+", "-"} THEN Tail(str) ELSE str
    IN  IF body = << >> \/ \E i \in 1..Len(body) : ~isDigit(body[i])
        THEN [err |-> TRUE, val |-> 0]
        ELSE [err |-> FALSE,
              val |-> IF Head(str) = "-" THEN 0 - digitsValue(body, 0)
                      ELSE digitsValue(body, 0)]

\* the server takes a string for an integer only in its decimal form
isIntegerEncoded(entry) == entry.str = Itoa(entry.val)

keyIsExpired(entry, t) == entry.ttl /\ t > entry.exp

\* the keys the server has dropped once the clock shows t
Purge(s, t) == [k \in {x \in DOMAIN s : ~keyIsExpired(s[x], t)} |-> s[k]]

\* GET key: the stored string, redis.Nil when the key does not exist
GET(s, key) ==
    IF key \in DOMAIN s THEN [nil |-> FALSE, val |-> s[key].str]
                        ELSE [nil |-> TRUE, val |-> << >>]

\* mutant: the read refreshes the expiry of the key, as GETEX does
AfterGET_getex(s, key, t) ==
    IF key \in DOMAIN s
    THEN [s EXCEPT ![key].ttl = TRUE, ![key].exp = t + time_Hour]
    ELSE s

\* the keyspace after GET key at the instant t: a read changes nothing
AfterGET(s, key, t) == s

\* SET key value by another client: the value replaces the entry, without TTL
SET(s, key, str) ==
    LET a == Atoi(str)
        v == IF ~a.err /\ Itoa(a.val) = str THEN a.val ELSE 0
        entry == [val |-> v, str |-> str, ttl |-> FALSE, exp |-> 0]
    IN  [k \in DOMAIN s \cup {key} |-> IF k = key THEN entry ELSE s[k]]

\* INCR answers with an error when the value is not an integer
INCRFails(s, key) == key \in DOMAIN s /\ ~isIntegerEncoded(s[key])

\* mutant: the counter is only initialised, as by SET key 1 NX
INCR_setnx(s, key) ==
    IF key \in DOMAIN s
    THEN s
    ELSE s @@ (key :> [val |-> 1, str |-> Itoa(1), ttl |-> FALSE, exp |-> 0])

\* INCR key: atomic on the server; a missing key counts from 0, without TTL
INCR(s, key) ==
    IF key \in DOMAIN s
    THEN IF INCRFails(s, key) THEN s
         ELSE [s EXCEPT ![key].val = @ + 1, ![key].str = Itoa(s[key].val + 1)]
    ELSE s @@ (key :> [val |-> 1, str |-> Itoa(1), ttl |-> FALSE, exp |-> 0])

\* go-redis formatSec: EXPIRE takes whole seconds
formatSec(dur) ==
    IF dur > 0 /\ dur < time_Second THEN 1 ELSE dur \div time_Second

\* EXPIRE key seconds, executed when the clock shows t
EXPIRE(s, key, dur, t) ==
    IF key \in DOMAIN s
    THEN [s EXCEPT ![key].ttl = TRUE,
                   ![key].exp = t + formatSec(dur) * time_Second]
    ELSE s

(***************************************************************************)
(* storage.RedisClient                                                     *)
(***************************************************************************)
\* mutant: the window counters are keyed on the window alone
rateKey_withoutCaller(apiKey, window) == <<"rate", "", window>>

\* the key "rate:<apiKey>:<window>", as a tuple
rateKey(apiKey, window) == <<"rate", apiKey, window>>

monthKey(t) == LET c == civil(t) IN <<c.year, c.month>>

quotaKey(apiKey, t) == <<"quota", apiKey, monthKey(t)>>

\* the expiration IncrementRateLimit attaches to every window counter
RateLimitExpiration == time_Hour

\* the expiration IncrementMonthlyQuota attaches: up to the next month
QuotaExpiration(t) ==
    LET c == civil(t) IN Sub(Date(c.year, c.month + 1, 1, 0, 0, 0), t)

\* pipeline INCR + EXPIRE on rate:<apiKey>:<window>
RedisIncrementRateLimit(s, t, apiKey, window) ==
    LET key == rateKey(apiKey, window)
    IN  EXPIRE(INCR(s, key), key, RateLimitExpiration, t)

\* mutant: the monthly quota is left as it is
IncrementMonthlyQuota_noop(s, t, apiKey) == s

\* mutant: the pipeline is sent a second time, as a retry would
IncrementMonthlyQuota_retry(s, t, apiKey) ==
    LET key == quotaKey(apiKey, t)
    IN  EXPIRE(INCR(INCR(s, key), key), key, QuotaExpiration(t), t)

\* pipeline INCR + EXPIRE on quota:<apiKey>:<year>-<month>
IncrementMonthlyQuota(s, t, apiKey) ==
    LET key == quotaKey(apiKey, t)
    IN  EXPIRE(INCR(s, key), key, QuotaExpiration(t), t)

\* mutant: a failed read is taken for an absent key
GetRateLimit_failOpen(s, apiKey, window, ok) ==
    LET got == GET(s, rateKey(apiKey, window))
    IN  IF ~ok \/ got.nil THEN [err |-> FALSE, val |-> 0]
        ELSE Atoi(got.val)

\* a read: ok = FALSE is a connection failure or timeout
GetRateLimit(s, apiKey, window, ok) ==
    LET got == GET(s, rateKey(apiKey, window))
    IN  IF ~ok THEN [err |-> TRUE, val |-> 0]
        ELSE IF got.nil THEN [err |-> FALSE, val |-> 0]
        ELSE Atoi(got.val)

\* mutant: redis.Nil is returned as an error like any other
GetMonthlyQuota_nilIsError(s, t, apiKey, ok) ==
    LET got == GET(s, quotaKey(apiKey, t))
    IN  IF ~ok \/ got.nil THEN [err |-> TRUE, val |-> 0]
        ELSE Atoi(got.val)

\* the read of quota:<apiKey>:<year>-<month>
GetMonthlyQuota(s, t, apiKey, ok) ==
    LET got == GET(s, quotaKey(apiKey, t))
    IN  IF ~ok THEN [err |-> TRUE, val |-> 0]
        ELSE IF got.nil THEN [err |-> FALSE, val |-> 0]
        ELSE Atoi(got.val)

\* any non-empty API key is valid
ValidateAPIKey(apiKey) == apiKey # ""

(***************************************************************************)
(* limiter.RateLimiter                                                     *)
(***************************************************************************)
\* mutant: the day window is left out of the list
windows_withoutDay ==
    << [name |-> "minute", limit |-> config.RequestsPerMinute, window |-> time_Minute],
       [name |-> "hour", limit |-> config.RequestsPerHour, window |-> time_Hour] >>

\* mutant: the hour window is listed before the minute window
windows_hourFirst ==
    << [name |-> "hour", limit |-> config.RequestsPerHour, window |-> time_Hour],
       [name |-> "minute", limit |-> config.RequestsPerMinute, window |-> time_Minute],
       [name |-> "day", limit |-> config.RequestsPerDay, window |-> 24 * time_Hour] >>

\* the windows CheckRateLimit goes through, in this order
windows ==
    << [name |-> "minute", limit |-> config.RequestsPerMinute, window |-> time_Minute],
       [name |-> "hour", limit |-> config.RequestsPerHour, window |-> time_Hour],
       [name |-> "day", limit |-> config.RequestsPerDay, window |-> 24 * time_Hour] >>

\* mutant: the commit leaves the minute counter alone
incrWindows_withoutMinute ==
    << [name |-> "hour", limit |-> config.RequestsPerHour, window |-> time_Hour],
       [name |-> "day", limit |-> config.RequestsPerDay, window |-> 24 * time_Hour] >>

\* the windows RateLimiter.IncrementRateLimit goes through
incrWindows ==
    << [name |-> "minute", limit |-> config.RequestsPerMinute, window |-> time_Minute],
       [name |-> "hour", limit |-> config.RequestsPerHour, window |-> time_Hour],
       [name |-> "day", limit |-> config.RequestsPerDay, window |-> 24 * time_Hour] >>

\* mutant: the minute key is formatted without the minute
getWindowKey_withoutMinute(t, window) ==
    LET c == civil(t)
    IN  CASE window = time_Minute -> <<c.year, c.month, c.day, Hour(t)>>
          [] window = time_Hour -> <<c.year, c.month, c.day, Hour(t)>>
          [] window = 24 * time_Hour -> <<c.year, c.month, c.day>>
          [] OTHER -> <<(t \div time_Second) \div (window \div time_Second)>>

\* mutant: the hour key is formatted without the day
getWindowKey_hourWithoutDay(t, window) ==
    LET c == civil(t)
    IN  CASE window = time_Minute -> <<c.year, c.month, c.day, Hour(t), Minute(t)>>
          [] window = time_Hour -> <<c.year, c.month, Hour(t)>>
          [] window = 24 * time_Hour -> <<c.year, c.month, c.day>>
          [] OTHER -> <<(t \div time_Second) \div (window \div time_Second)>>

\* the bucket of t: the formatted calendar fields, as a tuple
getWindowKey(t, window) ==
    LET c == civil(t)
    IN  CASE window = time_Minute -> <<c.year, c.month, c.day, Hour(t), Minute(t)>>
          [] window = time_Hour -> <<c.year, c.month, c.day, Hour(t)>>
          [] window = 24 * time_Hour -> <<c.year, c.month, c.day>>
          [] OTHER -> <<(t \div time_Second) \div (window \div time_Second)>>

\* mutant: the start of the current bucket is given as its reset time
getWindowResetTime_currentBucket(t, window) ==
    LET c == civil(t)
    IN  CASE window = time_Minute ->
                 Date(c.year, c.month, c.day, Hour(t), Minute(t), 0)
          [] window = time_Hour -> Date(c.year, c.month, c.day, Hour(t), 0, 0)
          [] window = 24 * time_Hour -> Date(c.year, c.month, c.day, 0, 0, 0)
          [] OTHER -> t

\* mutant: the window slides, it resets one window length after t
getWindowResetTime_sliding(t, window) == t + window

\* the start of the bucket after the one of t
getWindowResetTime(t, window) ==
    LET c == civil(t)
    IN  CASE window = time_Minute ->
                 Date(c.year, c.month, c.day, Hour(t), Minute(t) + 1, 0)
          [] window = time_Hour -> Date(c.year, c.month, c.day, Hour(t) + 1, 0, 0)
          [] window = 24 * time_Hour -> Date(c.year, c.month, c.day + 1, 0, 0, 0)
          [] OTHER -> t + window

\* the reset time of a monthly denial
monthlyResetTime(t) ==
    LET c == civil(t) IN Date(c.year, c.month + 1, 1, 0, 0, 0)

\* the verb %02d of fmt.Sprintf: at least two characters, padded with zeros
pad2(n) == IF n >= 0 /\ n < 10 THEN <<"0">> \o Itoa(n) ELSE Itoa(n)

\* the fields from the i-th on, each as "-%02d"
RECURSIVE dashPadded(_, _)
dashPadded(fields, i) ==
    IF i > Len(fields) THEN << >>
    ELSE <<"-">> \o pad2(fields[i]) \o dashPadded(fields, i + 1)

\* the string getWindowKey returns for the fields of a bucket:
\* fmt.Sprintf("%d-%02d-...", fields...), "%d" for the single field of an
\* unnamed window
formatWindowKey(fields) == Itoa(fields[1]) \o dashPadded(fields, 2)

\* Time.Format(time.RFC3339) of an instant in UTC
FormatRFC3339(t) ==
    LET c == civil(t)
    IN  Itoa(c.year) \o <<"-">> \o pad2(c.month) \o <<"-">> \o pad2(c.day)
        \o <<"T">> \o pad2(Hour(t)) \o <<":">> \o pad2(Minute(t))
        \o <<":">> \o pad2((t \div time_Second) % 60) \o <<"Z">>

\* mutant: a counter equal to its limit still passes
Exceeded_strict(current, limit) == current > limit

\* the comparison of a counter with its limit
Exceeded(current, limit) == current >= limit

NoResult ==
    [Allowed |-> FALSE, Remaining |-> 0, ResetTime |-> 0, Limit |-> 0,
     Window |-> "", QuotaUsed |-> 0, QuotaLimit |-> 0]

\* mutant: the monthly denial reports the quota as its limit
MonthlyDenied_quotaAsLimit(t, quotaUsed) ==
    [Allowed |-> FALSE, Remaining |-> 0, ResetTime |-> monthlyResetTime(t),
     Limit |-> config.MonthlyQuota, Window |-> "monthly",
     QuotaUsed |-> quotaUsed, QuotaLimit |-> config.MonthlyQuota]

MonthlyDenied(t, quotaUsed) ==
    [Allowed |-> FALSE, Remaining |-> 0, ResetTime |-> monthlyResetTime(t),
     Limit |-> 0, Window |-> "monthly",
     QuotaUsed |-> quotaUsed, QuotaLimit |-> config.MonthlyQuota]

WindowDenied(t, w, quotaUsed) ==
    [Allowed |-> FALSE, Remaining |-> 0,
     ResetTime |-> getWindowResetTime(t, w.window),
     Limit |-> w.limit, Window |-> w.name,
     QuotaUsed |-> quotaUsed, QuotaLimit |-> config.MonthlyQuota]

\* mutant: the allow verdict counts the admitted request off the limit
AllChecksPassed_oneLess(t, quotaUsed) ==
    [Allowed |-> TRUE, Remaining |-> config.RequestsPerMinute - 1,
     ResetTime |-> getWindowResetTime(t, time_Minute),
     Limit |-> config.RequestsPerMinute, Window |-> "minute",
     QuotaUsed |-> quotaUsed, QuotaLimit |-> config.MonthlyQuota]

\* the result when all checks passed
AllChecksPassed(t, quotaUsed) ==
    [Allowed |-> TRUE, Remaining |-> config.RequestsPerMinute,
     ResetTime |-> getWindowResetTime(t, time_Minute),
     Limit |-> config.RequestsPerMinute, Window |-> "minute",
     QuotaUsed |-> quotaUsed, QuotaLimit |-> config.MonthlyQuota]

\* the windows GetRateLimitInfo goes through
infoWindows ==
    << [name |-> "minute", limit |-> config.RequestsPerMinute, window |-> time_Minute],
       [name |-> "hour", limit |-> config.RequestsPerHour, window |-> time_Hour],
       [name |-> "day", limit |-> config.RequestsPerDay, window |-> 24 * time_Hour] >>

\* the entry of one window in the map GetRateLimitInfo returns
WindowInfo(t, w, current) ==
    [current |-> current, limit |-> w.limit, remaining |-> w.limit - current,
     reset_time |-> getWindowResetTime(t, w.window)]

NoInfo ==
    LET none == [current |-> 0, limit |-> 0, remaining |-> 0, reset_time |-> 0]
    IN  [monthly_quota |-> [used |-> 0, limit |-> 0],
         rate_limits |-> [minute |-> none, hour |-> none, day |-> none]]

\* the keys GetRateLimitInfo reads at the instant t, in this order
infoKeys(t, apiKey) ==
    <<quotaKey(apiKey, t)>> \o
    [i \in 1..Len(infoWindows) |->
        rateKey(apiKey, getWindowKey(t, infoWindows[i].window))]

\* the reads of GetRateLimitInfo; the connection fails at read number fail
\* (0: at none)
infoRead(s, t, apiKey, fail, i) ==
    IF i = 1 THEN GetMonthlyQuota(s, t, apiKey, fail # 1)
    ELSE GetRateLimit(s, apiKey, getWindowKey(t, infoWindows[i - 1].window), fail # i)

\* the number of reads GetRateLimitInfo performs: it returns at the first error
infoReads(s, t, apiKey, fail) ==
    LET failing == {i \in 1..(Len(infoWindows) + 1) : infoRead(s, t, apiKey, fail, i).err}
    IN  IF failing = {} THEN Len(infoWindows) + 1
        ELSE CHOOSE i \in failing : \A j \in failing : i <= j

\* mutant: the report is refused to a caller whose monthly quota is used up
GetRateLimitInfo_denying(s, t, apiKey, fail) ==
    LET rd(i) == infoRead(s, t, apiKey, fail, i)
        n == Len(infoWindows) + 1
    IN  IF (\E i \in 1..n : rd(i).err) \/ rd(1).val >= config.MonthlyQuota
        THEN [err |-> TRUE, info |-> NoInfo]
        ELSE [err |-> FALSE,
              info |-> [monthly_quota |-> [used |-> rd(1).val,
                                           limit |-> config.MonthlyQuota],
                        rate_limits |->
                          [minute |-> WindowInfo(t, infoWindows[1], rd(2).val),
                           hour |-> WindowInfo(t, infoWindows[2], rd(3).val),
                           day |-> WindowInfo(t, infoWindows[3], rd(4).val)]]]

\* RateLimiter.GetRateLimitInfo on the store s at the instant t
GetRateLimitInfo(s, t, apiKey, fail) ==
    LET rd(i) == infoRead(s, t, apiKey, fail, i)
        n == Len(infoWindows) + 1
    IN  IF \E i \in 1..n : rd(i).err
        THEN [err |-> TRUE, info |-> NoInfo]
        ELSE [err |-> FALSE,
              info |-> [monthly_quota |-> [used |-> rd(1).val,
                                           limit |-> config.MonthlyQuota],
                        rate_limits |->
                          [minute |-> WindowInfo(t, infoWindows[1], rd(2).val),
                           hour |-> WindowInfo(t, infoWindows[2], rd(3).val),
                           day |-> WindowInfo(t, infoWindows[3], rd(4).val)]]]

\* the keyspace after the first n reads of keys, the one numbered fail not
\* having reached the server
RECURSIVE AfterReads(_, _, _, _, _)
AfterReads(s, keys, n, fail, t) ==
    IF n = 0 THEN s
    ELSE LET before == AfterReads(s, keys, n - 1, fail, t)
         IN  IF n = fail THEN before ELSE AfterGET(before, keys[n], t)

(***************************************************************************)
(* A request on /proxy: the gin context of the goroutine serving it.       *)
(*   pc        where the handler chain stands                              *)
(*   now       time.Now() taken by CheckRateLimit                          *)
(*   inow      time.Now() taken by RateLimiter.IncrementRateLimit          *)
(*   w         index of the window being read or incremented               *)
(*   result    the RateLimitResult of the check                            *)
(*   headers   the X-RateLimit-* headers of the response, << >> when unset *)
(*   err       CheckRateLimit returned an error                            *)
(*   incErr    RateLimiter.IncrementRateLimit returned an error            *)
(*   status    c.Writer.Status(): 200 until a response is written          *)
(*   incs      the store keys this request has incremented                 *)
(*   upstream  outcome of the upstream exchange, "" before it              *)
(*   route     the route of the request                                    *)
(*   info      the report of a request on /api/rate-limit-info             *)
(***************************************************************************)
StatusOK == 200
StatusUnauthorized == 401
StatusTooManyRequests == 429
StatusInternalServerError == 500
StatusBadGateway == 502

HeaderNames ==
    {"X-RateLimit-Limit", "X-RateLimit-Remaining", "X-RateLimit-Reset",
     "X-RateLimit-Window", "X-RateLimit-QuotaUsed", "X-RateLimit-QuotaLimit"}

\* a response without rate-limit headers
NoHeaders == [n \in HeaderNames |-> << >>]

\* the headers RateLimit sets from the result of the check, on a denial and
\* on an admission alike
RateLimitHeaders(result) ==
    [n \in HeaderNames |->
       CASE n = "X-RateLimit-Limit" -> Itoa(result.Limit)
         [] n = "X-RateLimit-Remaining" -> Itoa(result.Remaining)
         [] n = "X-RateLimit-Reset" -> FormatRFC3339(result.ResetTime)
         [] n = "X-RateLimit-Window" -> <<result.Window>>
         [] n = "X-RateLimit-QuotaUsed" -> Itoa(result.QuotaUsed)
         [] n = "X-RateLimit-QuotaLimit" -> Itoa(result.QuotaLimit)]

\* Proxy copies the headers of the upstream response: c.Header(key, value)
\* replaces a header of the same name
CopyHeaders(headers, upstream) ==
    [n \in HeaderNames |->
       IF upstream[n] # << >> THEN upstream[n] ELSE headers[n]]

NewRequest ==
    [pc |-> "idle", apiKey |-> "", now |-> 0, inow |-> 0, w |-> 0,
     quotaUsed |-> 0, result |-> NoResult, headers |-> NoHeaders,
     err |-> FALSE, incErr |-> FALSE,
     status |-> StatusOK, code |-> "", aborted |-> FALSE,
     incs |-> {}, upstream |-> "", route |-> "", info |-> NoInfo]

\* mutant: the response is written but c.Abort() is missing
AbortWith_noAbort(r, status, code) ==
    [r EXCEPT !.status = status, !.code = code, !.pc = "proxy",
              !.now = 0, !.w = 0, !.quotaUsed = 0]

\* c.JSON(status, ...) followed by c.Abort()
AbortWith(r, status, code) ==
    [r EXCEPT !.status = status, !.code = code, !.aborted = TRUE, !.pc = "done"]

\* mutant: the header is taken as the caller identity without a check
Authenticate_noGate(r, header) == [r EXCEPT !.apiKey = header]

\* AuthMiddleware.Authenticate on the X-API-Key header
Authenticate(r, header) ==
    IF header = "" THEN AbortWith(r, StatusUnauthorized, "MISSING_API_KEY")
    ELSE IF ~ValidateAPIKey(header)
         THEN AbortWith(r, StatusUnauthorized, "INVALID_API_KEY")
         ELSE [r EXCEPT !.apiKey = header]

\* CheckRateLimit returns (result, err): its locals now, w and quotaUsed end
Return(r, result, err) ==
    [r EXCEPT !.pc = "checked", !.result = result, !.err = err,
              !.now = 0, !.w = 0, !.quotaUsed = 0]

\* CheckRateLimit, first part: the monthly quota, read as res
CheckQuota(r, res) ==
    IF res.err THEN Return(r, NoResult, TRUE)
    ELSE IF Exceeded(res.val, config.MonthlyQuota)
         THEN Return(r, MonthlyDenied(r.now, res.val), FALSE)
         ELSE [r EXCEPT !.pc = "chk_win", !.w = 1, !.quotaUsed = res.val]

\* CheckRateLimit, one turn of the loop over the windows, the counter read as res
CheckWindow(r, res) ==
    LET w == windows[r.w]
    IN  IF res.err THEN Return(r, NoResult, TRUE)
        ELSE IF Exceeded(res.val, w.limit)
             THEN Return(r, WindowDenied(r.now, w, r.quotaUsed), FALSE)
             ELSE IF r.w < Len(windows)
                  THEN [r EXCEPT !.w = r.w + 1]
                  ELSE Return(r, AllChecksPassed(r.now, r.quotaUsed), FALSE)

\* mutant: the limiter keeps the last verdict in memory and admits on it
\* while another goroutine still holds an admission
BeginCheck_verdictCache(r, t) ==
    IF \E q \in Procs : req[q].pc \in {"proxy", "done"} /\ req[q].result.Allowed
    THEN LET q == CHOOSE q \in Procs :
                     req[q].pc \in {"proxy", "done"} /\ req[q].result.Allowed
         IN  [r EXCEPT !.pc = "inc_quota", !.inow = t, !.result = req[q].result]
    ELSE [r EXCEPT !.pc = "chk_quota", !.now = t]

\* CheckRateLimit, entry: now := time.Now()
BeginCheck(r, t) == [r EXCEPT !.pc = "chk_quota", !.now = t]

\* RateLimitMiddleware.RateLimit up to the first read of CheckRateLimit: a
\* context without an API key is answered with an internal error
RateLimitBegin(r, t) ==
    IF r.apiKey = ""
    THEN AbortWith(r, StatusInternalServerError, "INTERNAL_ERROR")
    ELSE BeginCheck(r, t)

\* CheckRateLimit from r on, every read succeeding on the store s at the
\* instant t: the check as one uninterrupted call
RECURSIVE RunCheck(_, _, _)
RunCheck(r, s, t) ==
    IF r.pc = "chk_quota"
    THEN RunCheck(CheckQuota(r, GetMonthlyQuota(s, t, r.apiKey, TRUE)), s, t)
    ELSE IF r.pc = "chk_win"
    THEN RunCheck(CheckWindow(r, GetRateLimit(s, r.apiKey,
                     getWindowKey(r.now, windows[r.w].window), TRUE)), s, t)
    ELSE r

\* the RateLimitResult of CheckRateLimit(ctx, apiKey) on the store s at t
CheckRateLimit(s, t, apiKey) ==
    RunCheck(BeginCheck([NewRequest EXCEPT !.apiKey = apiKey], t), s, t).result

\* mutant: the commit handler is not in the chain
IncrementMiddleware_skip(r, t) == [r EXCEPT !.pc = "proxy"]

\* RateLimitMiddleware.IncrementRateLimit up to the call of the limiter,
\* which takes its own time.Now(); the handler does not call c.Next(), the
\* chain goes on to Proxy when it returns
IncrementMiddleware(r, t) ==
    IF r.status >= 200 /\ r.status < 300 /\ r.apiKey # ""
    THEN [r EXCEPT !.pc = "inc_quota", !.inow = t, !.w = 0]
    ELSE [r EXCEPT !.pc = "proxy"]

\* RateLimitMiddleware.RateLimit once CheckRateLimit has returned
RateLimit(r, t) ==
    IF r.pc # "checked" THEN r
    ELSE IF r.err
         THEN AbortWith(r, StatusInternalServerError, "RATE_LIMIT_ERROR")
    ELSE IF ~r.result.Allowed
         THEN AbortWith([r EXCEPT !.headers = RateLimitHeaders(r.result)],
                        StatusTooManyRequests,
                        IF r.result.Window = "monthly"
                        THEN "MONTHLY_QUOTA_EXCEEDED" ELSE "RATE_LIMIT_EXCEEDED")
    ELSE IncrementMiddleware([r EXCEPT !.headers = RateLimitHeaders(r.result)], t)

\* mutant: a failed increment is logged and the commit goes on with the next
\* counter
IncrementFailed_continue(r) ==
    IF r.pc = "inc_quota"
    THEN [r EXCEPT !.pc = "inc_win", !.incErr = TRUE, !.w = 1]
    ELSE IF r.w < Len(incrWindows)
         THEN [r EXCEPT !.incErr = TRUE, !.w = r.w + 1]
         ELSE [r EXCEPT !.pc = "proxy", !.incErr = TRUE, !.inow = 0, !.w = 0]

\* mutant: a failed increment is answered with an error of the rate limiter
IncrementFailed_abort(r) ==
    AbortWith([r EXCEPT !.incErr = TRUE, !.inow = 0, !.w = 0],
              StatusInternalServerError, "RATE_LIMIT_ERROR")

\* RateLimiter.IncrementRateLimit returns the error of a failed increment;
\* the middleware logs it and the chain goes on to Proxy
IncrementFailed(r) ==
    [r EXCEPT !.pc = "proxy", !.incErr = TRUE, !.inow = 0, !.w = 0]

\* GatewayHandler.GetRateLimitInfo, the handler of /api/rate-limit-info after
\* Authenticate; got is what RateLimiter.GetRateLimitInfo returned
HandleGetRateLimitInfo(r, got) ==
    IF r.apiKey = ""
    THEN [r EXCEPT !.status = StatusInternalServerError, !.code = "INTERNAL_ERROR",
                   !.pc = "done"]
    ELSE IF got.err
         THEN [r EXCEPT !.status = StatusInternalServerError,
                        !.code = "RATE_LIMIT_ERROR", !.pc = "done"]
         ELSE [r EXCEPT !.status = StatusOK, !.info = got.info, !.pc = "done"]

\* the requests between the start of their check and the end of their commit
InFlight ==
    Cardinality({p \in Procs :
                   req[p].pc \in {"chk_quota", "chk_win", "inc_quota", "inc_win"}})

(***************************************************************************)
(* Initial state: an empty store, every goroutine idle                     *)
(***************************************************************************)
Init ==
    /\ now = EndOfMonth
    /\ store = << >>
    /\ config \in LoadPolicies
    /\ conc \in 1..NumProc
    /\ req = [p \in Procs |-> NewRequest]
    /\ started = 0
    /\ advanced = 0
    /\ faults = 0
    /\ commits = 0

(***************************************************************************)
(* Actions                                                                 *)
(***************************************************************************)
\* a store operation succeeds (ok) or fails with a connection error
Fault(ok) ==
    /\ ~ok => faults < MaxFaults
    /\ faults' = IF ok THEN faults ELSE faults + 1

\* A request arrives: Authenticate, then RateLimit up to the first read
Arrive(p, header) ==
    /\ req[p].pc = "idle"
    /\ \A q \in Procs : q < p => req[q].pc # "idle"
    /\ started < MaxReq
    /\ LET a == Authenticate([NewRequest EXCEPT !.route = "/proxy"], header)
           b == IF a.aborted THEN a ELSE RateLimitBegin(a, now)
       IN  /\ ~b.aborted => InFlight < conc
           /\ req' = [req EXCEPT ![p] = b]
    /\ started' = started + 1
    /\ UNCHANGED <<now, store, config, conc, advanced, faults, commits>>

\* A request arrives on /api/rate-limit-info: Authenticate, then the handler
\* with its reads of the four counters, one goroutine at a time
Info(p, header, fail) ==
    /\ req[p].pc = "idle"
    /\ \A q \in Procs : req[q].pc = "idle"
    /\ started < MaxReq
    /\ LET a == [Authenticate(NewRequest, header) EXCEPT !.route = "/api/rate-limit-info"]
       IN  IF a.aborted
           THEN /\ fail = 0
                /\ req' = [req EXCEPT ![p] = a]
                /\ UNCHANGED <<store, faults>>
           ELSE /\ fail <= infoReads(store, now, a.apiKey, fail)
                /\ Fault(fail = 0)
                /\ req' = [req EXCEPT ![p] = HandleGetRateLimitInfo(a,
                                  GetRateLimitInfo(store, now, a.apiKey, fail))]
                /\ store' = AfterReads(store, infoKeys(now, a.apiKey),
                                       infoReads(store, now, a.apiKey, fail), fail, now)
    /\ started' = started + 1
    /\ UNCHANGED <<now, config, conc, advanced, commits>>

\* another client of the store writes a value under one of the caller's keys
SetByOther(key, str) ==
    /\ \A p \in Procs : req[p].pc = "idle"
    /\ faults < MaxFaults
    /\ ~(key \in DOMAIN store /\ store[key].str = str)
    /\ store' = SET(store, key, str)
    /\ faults' = faults + 1
    /\ UNCHANGED <<now, config, conc, req, started, advanced, commits>>

\* CheckRateLimit reads the monthly quota
ReadQuota(p, ok) ==
    /\ req[p].pc = "chk_quota"
    /\ Fault(ok)
    /\ LET res == GetMonthlyQuota(store, now, req[p].apiKey, ok)
       IN  req' = [req EXCEPT ![p] = RateLimit(CheckQuota(req[p], res), now)]
    /\ store' = IF ok THEN AfterGET(store, quotaKey(req[p].apiKey, now), now)
                 ELSE store
    /\ UNCHANGED <<now, config, conc, started, advanced, commits>>

\* CheckRateLimit reads the counter of the next window
ReadWindow(p, ok) ==
    /\ req[p].pc = "chk_win"
    /\ Fault(ok)
    /\ LET key == getWindowKey(req[p].now, windows[req[p].w].window)
           res == GetRateLimit(store, req[p].apiKey, key, ok)
       IN  /\ req' = [req EXCEPT ![p] = RateLimit(CheckWindow(req[p], res), now)]
           /\ store' = IF ok THEN AfterGET(store, rateKey(req[p].apiKey, key), now)
                        ELSE store
    /\ UNCHANGED <<now, config, conc, started, advanced, commits>>

\* RateLimiter.IncrementRateLimit increments the monthly quota
IncrQuota(p, ok) ==
    /\ req[p].pc = "inc_quota"
    /\ Fault(ok)
    /\ store' = IF ok THEN IncrementMonthlyQuota(store, now, req[p].apiKey)
                 ELSE store
    /\ IF ok /\ ~INCRFails(store, quotaKey(req[p].apiKey, now))
       THEN req' = [req EXCEPT ![p].pc = "inc_win", ![p].w = 1,
                               ![p].incs = @ \cup {quotaKey(req[p].apiKey, now)}]
       ELSE req' = [req EXCEPT ![p] = IncrementFailed(req[p])]
    /\ UNCHANGED <<now, config, conc, started, advanced, commits>>

\* RateLimiter.IncrementRateLimit increments the counter of the next window
IncrWindow(p, ok) ==
    /\ req[p].pc = "inc_win"
    /\ Fault(ok)
    /\ LET key == getWindowKey(req[p].inow, incrWindows[req[p].w].window)
           last == req[p].w = Len(incrWindows)
           done == ok /\ ~INCRFails(store, rateKey(req[p].apiKey, key))
       IN  /\ store' = IF ok
                        THEN RedisIncrementRateLimit(store, now, req[p].apiKey, key)
                        ELSE store
           /\ IF done
              THEN req' = [req EXCEPT
                             ![p].pc = IF last THEN "proxy" ELSE "inc_win",
                             ![p].w = IF last THEN 0 ELSE req[p].w + 1,
                             ![p].inow = IF last THEN 0 ELSE @,
                             ![p].incs = @ \cup {rateKey(req[p].apiKey, key)}]
              ELSE req' = [req EXCEPT ![p] = IncrementFailed(req[p])]
           /\ commits' = IF done /\ last /\ ~req[p].incErr
                         THEN commits + 1 ELSE commits
    /\ UNCHANGED <<now, config, conc, started, advanced>>

UpstreamOutcomes == {"200", "500", "unavailable"}

\* the rate-limit headers of an upstream response: none, or, on a 200, a
\* Remaining of the upstream service's own
UpstreamHeaders ==
    { NoHeaders, [NoHeaders EXCEPT !["X-RateLimit-Remaining"] = <<"9">>] }

\* GatewayHandler.Proxy: the upstream exchange and the response, which
\* takes the status and the headers of the upstream response
Proxy(p, outcome, hdrs) ==
    /\ req[p].pc = "proxy"
    /\ outcome # "200" => hdrs = NoHeaders
    /\ req' = [req EXCEPT ![p] =
                 IF req[p].apiKey = ""
                 THEN [@ EXCEPT !.pc = "done",
                                !.status = StatusInternalServerError,
                                !.code = "INTERNAL_ERROR"]
                 ELSE [@ EXCEPT
                         !.pc = "done",
                         !.upstream = outcome,
                         !.headers = CopyHeaders(@, hdrs),
                         !.status = CASE outcome = "200" -> StatusOK
                                      [] outcome = "500" -> StatusInternalServerError
                                      [] OTHER -> StatusBadGateway,
                         !.code = IF outcome = "unavailable"
                                  THEN "UPSTREAM_UNAVAILABLE" ELSE ""]]
    /\ UNCHANGED <<now, store, config, conc, started, advanced, faults, commits>>

\* the response is sent, the goroutine is free for the next request
Finish(p) ==
    /\ req[p].pc = "done"
    /\ req' = [req EXCEPT ![p] = NewRequest]
    /\ UNCHANGED <<now, store, config, conc, started, advanced, faults, commits>>

\* the wall clock advances by d; the server drops the keys that have expired
Advance(d) ==
    /\ now' = now + d
    /\ store' = Purge(store, now + d)
    /\ advanced' = advanced + 1
    /\ UNCHANGED <<config, conc, req, started, faults, commits>>

\* time passes while requests are being served
Tick ==
    /\ advanced < MaxTicks
    /\ Advance(1)

\* time passes between two requests of a sequential client
Pass(d) ==
    /\ advanced < MaxAdvance
    /\ \A p \in Procs : req[p].pc = "idle"
    /\ Advance(d)

Next ==
    \/ \E p \in Procs, header \in APIKeys \cup {""} : Arrive(p, header)
    \/ \E p \in Procs, ok \in BOOLEAN : ReadQuota(p, ok)
    \/ \E p \in Procs, ok \in BOOLEAN : ReadWindow(p, ok)
    \/ \E p \in Procs, ok \in BOOLEAN : IncrQuota(p, ok)
    \/ \E p \in Procs, ok \in BOOLEAN : IncrWindow(p, ok)
    \/ \E p \in Procs, outcome \in UpstreamOutcomes, hdrs \in UpstreamHeaders :
          Proxy(p, outcome, hdrs)
    \/ \E p \in Procs : Finish(p)
    \/ Tick

Spec == Init /\ [][Next]_vars

(***************************************************************************)
(* A sequential client: one goroutine serves one request after the other,  *)
(* while the clock runs over seconds and hours.                            *)
(***************************************************************************)
InitClock ==
    /\ now \in StartTimes
    /\ store = << >>
    /\ config \in Policies
    /\ conc = 1
    /\ req = [p \in Procs |-> NewRequest]
    /\ started = 0
    /\ advanced = 0
    /\ faults = 0
    /\ commits = 0

NextClock ==
    \/ \E header \in APIKeys \cup {""} : Arrive(1, header)
    \/ \E ok \in BOOLEAN : ReadQuota(1, ok)
    \/ \E ok \in BOOLEAN : ReadWindow(1, ok)
    \/ \E ok \in BOOLEAN : IncrQuota(1, ok)
    \/ \E ok \in BOOLEAN : IncrWindow(1, ok)
    \/ \E outcome \in UpstreamOutcomes, hdrs \in UpstreamHeaders :
          Proxy(1, outcome, hdrs)
    \/ Finish(1)
    \/ \E d \in Deltas : Pass(d)

SpecClock == InitClock /\ [][NextClock]_vars

(***************************************************************************)
(* A sequential client of both routes, /proxy and /api/rate-limit-info,    *)
(* on a store that another client may write to.                            *)
(***************************************************************************)
InitInfo ==
    /\ now = Date(2024, 3, 15, 10, 30, 0)
    /\ store = << >>
    /\ config \in LoadPolicies
    /\ conc = 1
    /\ req = [p \in Procs |-> NewRequest]
    /\ started = 0
    /\ advanced = 0
    /\ faults = 0
    /\ commits = 0

NextInfo ==
    \/ \E header \in APIKeys \cup {""} : Arrive(1, header)
    \/ \E ok \in BOOLEAN : ReadQuota(1, ok)
    \/ \E ok \in BOOLEAN : ReadWindow(1, ok)
    \/ \E ok \in BOOLEAN : IncrQuota(1, ok)
    \/ \E ok \in BOOLEAN : IncrWindow(1, ok)
    \/ \E outcome \in UpstreamOutcomes, hdrs \in UpstreamHeaders :
          Proxy(1, outcome, hdrs)
    \/ Finish(1)
    \/ \E header \in APIKeys \cup {""}, fail \in 0..(Len(infoWindows) + 1) :
          Info(1, header, fail)
    \/ \E k \in APIKeys, i \in 1..(Len(infoWindows) + 1), str \in RawValues :
          SetByOther(infoKeys(now, k)[i], str)
    \/ \E d \in Deltas : Pass(d)

SpecInfo == InitInfo /\ [][NextInfo]_vars


(***************************************************************************)
(* Vocabulary of the properties                                            *)
(***************************************************************************)
\* the value a read of the counter returns: 0 for an absent key
Counter(key) == IF key \in DOMAIN store THEN store[key].val ELSE 0

minuteBucket(t) ==
    LET c == civil(t) IN <<c.year, c.month, c.day, Hour(t), Minute(t)>>
hourBucket(t) == LET c == civil(t) IN <<c.year, c.month, c.day, Hour(t)>>
dayBucket(t) == LET c == civil(t) IN <<c.year, c.month, c.day>>
monthBucket(t) == LET c == civil(t) IN <<c.year, c.month>>

\* the caller's counters of the buckets that are current at the instant t
QuotaCount(k, t) == Counter(<<"quota", k, monthBucket(t)>>)
MinuteCount(k, t) == Counter(<<"rate", k, minuteBucket(t)>>)
HourCount(k, t) == Counter(<<"rate", k, hourBucket(t)>>)
DayCount(k, t) == Counter(<<"rate", k, dayBucket(t)>>)

\* r is the first instant after t that lies in another bucket than t
StartOfNext(r, t, bucket(_)) ==
    /\ r > t
    /\ bucket(r) # bucket(t)
    /\ bucket(r - 1) = bucket(t)

\* the check of request p has returned a verdict and nothing has happened since
JustChecked(p) ==
    \/ req[p].pc = "inc_quota"
    \/ req[p].pc = "done" /\ req[p].result.Window # "" /\ ~req[p].result.Allowed

(***************************************************************************)
(* C1: check returns allowed=true if and only if the monthly quota counter *)
(* is strictly below the monthly limit and the current minute, hour and    *)
(* day counters are each strictly below their limits; the verdict a        *)
(* request receives from the handler chain is this one.                    *)
(***************************************************************************)
C1_AllowedIffAllBelow ==
    /\ \A k \in APIKeys :
         CheckRateLimit(store, now, k).Allowed <=>
            /\ QuotaCount(k, now) < config.MonthlyQuota
            /\ MinuteCount(k, now) < config.RequestsPerMinute
            /\ HourCount(k, now) < config.RequestsPerHour
            /\ DayCount(k, now) < config.RequestsPerDay
    /\ \A p \in Procs :
         JustChecked(p) => req[p].result = CheckRateLimit(store, now, req[p].apiKey)

\* a request is allowed while the caller already has usage on record
C1_Witness ==
    \E p \in Procs :
        /\ req[p].pc = "inc_quota"
        /\ req[p].result.Allowed
        /\ MinuteCount(req[p].apiKey, now) >= 1
        /\ QuotaCount(req[p].apiKey, now) >= 1

(***************************************************************************)
(* C2: whenever the monthly quota counter is >= the monthly limit, also    *)
(* with a limit of 0 and no usage, check denies with window "monthly",     *)
(* limit 0, remaining 0 and reset at the first instant of the next         *)
(* calendar month, whatever the minute, hour and day counters are.         *)
(***************************************************************************)
C2_MonthlyPrecedence ==
    \A k \in APIKeys :
        QuotaCount(k, now) >= config.MonthlyQuota =>
            LET v == CheckRateLimit(store, now, k)
            IN  /\ ~v.Allowed
                /\ v.Window = "monthly"
                /\ v.Limit = 0
                /\ v.Remaining = 0
                /\ StartOfNext(v.ResetTime, now, monthBucket)
                /\ Hour(v.ResetTime) = 0 /\ Day(v.ResetTime) = 1
                /\ v.ResetTime % time_Hour = 0

\* a request is denied on the monthly quota while the minute window is
\* exhausted too
C2_Witness ==
    \E p \in Procs :
        /\ req[p].pc = "done"
        /\ req[p].result.Window = "monthly"
        /\ config.MonthlyQuota > 0
        /\ MinuteCount(req[p].apiKey, now) >= config.RequestsPerMinute

(***************************************************************************)
(* C3: when the monthly quota is not exhausted, a denial is bound to the   *)
(* first exhausted window in the order minute, hour, day; it carries that  *)
(* window's limit, remaining 0, the start of that window's next bucket as  *)
(* reset, the monthly value read and the monthly limit.                    *)
(***************************************************************************)
C3_WindowPrecedence ==
    \A k \in APIKeys :
        LET v == CheckRateLimit(store, now, k)
            quotaLeft == QuotaCount(k, now) < config.MonthlyQuota
            minuteOut == MinuteCount(k, now) >= config.RequestsPerMinute
            hourOut == HourCount(k, now) >= config.RequestsPerHour
            dayOut == DayCount(k, now) >= config.RequestsPerDay
            quotaFields == /\ v.QuotaUsed = QuotaCount(k, now)
                           /\ v.QuotaLimit = config.MonthlyQuota
                           /\ v.Remaining = 0
                           /\ ~v.Allowed
        IN  /\ quotaLeft /\ minuteOut =>
                /\ v.Window = "minute" /\ v.Limit = config.RequestsPerMinute
                /\ StartOfNext(v.ResetTime, now, minuteBucket)
                /\ quotaFields
            /\ quotaLeft /\ ~minuteOut /\ hourOut =>
                /\ v.Window = "hour" /\ v.Limit = config.RequestsPerHour
                /\ StartOfNext(v.ResetTime, now, hourBucket)
                /\ quotaFields
            /\ quotaLeft /\ ~minuteOut /\ ~hourOut /\ dayOut =>
                /\ v.Window = "day" /\ v.Limit = config.RequestsPerDay
                /\ StartOfNext(v.ResetTime, now, dayBucket)
                /\ quotaFields

\* a request is denied on the minute window while the hour window is
\* exhausted too and the monthly quota is not
C3_Witness ==
    \E p \in Procs :
        /\ req[p].pc = "done"
        /\ req[p].result.Window = "minute"
        /\ HourCount(req[p].apiKey, now) >= config.RequestsPerHour
        /\ QuotaCount(req[p].apiKey, now) < config.MonthlyQuota


(***************************************************************************)
(* C4: with at most conc requests of the caller between their check and    *)
(* their commit, every window counter and the monthly counter exceed their *)
(* limit by at most conc - 1; with conc = 1 no counter exceeds its limit.  *)
(***************************************************************************)
\* the limit that applies to the counter stored under key
LimitOf(key) ==
    IF key[1] = "quota" THEN config.MonthlyQuota
    ELSE CASE Len(key[3]) = 5 -> config.RequestsPerMinute
           [] Len(key[3]) = 4 -> config.RequestsPerHour
           [] OTHER -> config.RequestsPerDay

C4_BoundedOverAdmission ==
    /\ InFlight <= conc
    /\ \A key \in DOMAIN store : store[key].val <= LimitOf(key) + conc - 1

\* two concurrent requests have pushed all four counters of one instant one
\* over their limits
C4_Witness ==
    /\ conc = 2
    /\ \E k \in APIKeys, t \in {now, now - 1} :
        /\ QuotaCount(k, t) = config.MonthlyQuota + 1
        /\ MinuteCount(k, t) = config.RequestsPerMinute + 1
        /\ HourCount(k, t) = config.RequestsPerHour + 1
        /\ DayCount(k, t) = config.RequestsPerDay + 1

(***************************************************************************)
(* C5: when N commits of one caller run concurrently, in any interleaving, *)
(* inside one bucket and all succeed, each of the minute, hour, day and    *)
(* monthly counters ends at its initial value (0) plus N; while a commit   *)
(* is under way the counters it has already incremented count it.          *)
(***************************************************************************)
\* the commits under way that have incremented the counter under key
Committing(key) ==
    {p \in Procs : req[p].pc \in {"inc_quota", "inc_win"} /\ key \in req[p].incs}

C5_NoLostUpdates ==
    (faults = 0 /\ advanced = 0) =>
        \A k \in APIKeys :
            \A key \in { <<"quota", k, monthBucket(now)>>,
                         <<"rate", k, minuteBucket(now)>>,
                         <<"rate", k, hourBucket(now)>>,
                         <<"rate", k, dayBucket(now)>> } :
                Counter(key) = commits + Cardinality(Committing(key))

\* two commits are under way at once, each with increments applied
C5_Witness ==
    /\ faults = 0 /\ advanced = 0
    /\ \E p, q \in Procs :
        /\ p # q
        /\ req[p].pc = "inc_win" /\ req[q].pc = "inc_win"
        /\ req[p].w # req[q].w

(***************************************************************************)
(* C6: if a store read of check fails, check returns an error and no       *)
(* verdict; the gateway answers 500 RATE_LIMIT_ERROR, does not forward the *)
(* request and increments no counter.                                      *)
(***************************************************************************)
\* request p performs a read in this step and the read fails
ReadFails(p) ==
    /\ req[p].pc \in {"chk_quota", "chk_win"}
    /\ req'[p] # req[p]
    /\ faults' = faults + 1

C6_FailClosed ==
    [][ \A p \in Procs :
          /\ ReadFails(p) =>
                /\ req'[p].err
                /\ req'[p].result = NoResult
                /\ req'[p].headers = NoHeaders
                /\ req'[p].pc = "done"
                /\ req'[p].status = StatusInternalServerError
                /\ req'[p].code = "RATE_LIMIT_ERROR"
                /\ store' = store
          /\ req[p].err =>
                /\ req[p].upstream = "" /\ req[p].incs = {}
                /\ req'[p] \in {req[p], NewRequest}
      ]_vars

\* a check fails on a read for a caller that has counters in the store
C6_Witness ==
    \E p \in Procs :
        /\ req[p].err
        /\ QuotaCount(req[p].apiKey, now) >= 1

(***************************************************************************)
(* C7: the counters of a caller are incremented for a request only if the  *)
(* request was admitted and its upstream exchange has already completed    *)
(* with a 2xx status.                                                      *)
(***************************************************************************)
C7_CommitOnlyAfterSuccess ==
    \A p \in Procs :
        req[p].incs # {} => (req[p].result.Allowed /\ req[p].upstream = "200")

(***************************************************************************)
(* C8: a denied request, on the monthly quota or on a window, is answered  *)
(* 429, is never forwarded and increments no counter; a request is         *)
(* forwarded only after an allow verdict for that request.                 *)
(***************************************************************************)
C8_DeniedHasNoEffect ==
    \A p \in Procs :
        /\ (req[p].result.Window # "" /\ ~req[p].result.Allowed) =>
              /\ req[p].status = StatusTooManyRequests
              /\ req[p].pc = "done"
              /\ req[p].upstream = ""
              /\ req[p].incs = {}
        /\ (req[p].pc = "proxy" \/ req[p].upstream # "") => req[p].result.Allowed

\* one request is denied on a window while another was admitted and forwarded
C8_Witness ==
    \E p, q \in Procs :
        /\ req[p].pc = "done" /\ req[p].result.Window = "minute"
        /\ req[p].status = StatusTooManyRequests
        /\ req[q].upstream = "200"


(***************************************************************************)
(* C9: for any caller and window instance, the values of the counter, over *)
(* any operations and any passage of time inside that window instance, are *)
(* non-decreasing: the counter never drops while its bucket is current.    *)
(***************************************************************************)
\* the bucket that the counter under key counts is the current one at t
StillCurrent(key, t) ==
    IF key[1] = "quota" THEN key[3] = monthBucket(t)
    ELSE CASE Len(key[3]) = 5 -> key[3] = minuteBucket(t)
           [] Len(key[3]) = 4 -> key[3] = hourBucket(t)
           [] OTHER -> key[3] = dayBucket(t)

C9_CounterMonotonic ==
    [][ \A key \in DOMAIN store :
          StillCurrent(key, now') =>
              /\ key \in DOMAIN store'
              /\ store'[key].val >= store[key].val
      ]_vars

(***************************************************************************)
(* C10: the expiry an increment attaches to a minute, hour or day counter  *)
(* covers the window: an incremented counter is present at every instant   *)
(* up to the end of its window instance.                                   *)
(***************************************************************************)
\* the first instant after the bucket wk
BucketEnd(wk) ==
    CASE Len(wk) = 5 -> Date(wk[1], wk[2], wk[3], wk[4], wk[5] + 1, 0)
      [] Len(wk) = 4 -> Date(wk[1], wk[2], wk[3], wk[4] + 1, 0, 0)
      [] OTHER -> Date(wk[1], wk[2], wk[3] + 1, 0, 0, 0)

C10_ExpiryCoversWindow ==
    \A key \in DOMAIN store :
        key[1] = "rate" =>
            /\ store[key].ttl
            /\ store[key].exp >= BucketEnd(key[3])


(***************************************************************************)
(* C11: with minute limit L and the hour, day and monthly limits above L,  *)
(* when one caller checks and commits sequentially inside one minute       *)
(* bucket, every check that follows fewer than L commits is allowed and    *)
(* the check that follows L commits is denied with window "minute",        *)
(* limit L and remaining 0.                                                *)
(***************************************************************************)
\* the clock has not left the minute in which the behaviour started
InStartMinute ==
    \E s \in StartTimes : s <= now /\ minuteBucket(s) = minuteBucket(now)

\* only the minute limit can be reached by L commits
MinuteLimitBindsAlone ==
    /\ config.RequestsPerHour > config.RequestsPerMinute
    /\ config.RequestsPerDay > config.RequestsPerMinute
    /\ config.MonthlyQuota > config.RequestsPerMinute

C12_LthRequestRejected ==
    \A p \in Procs :
        (JustChecked(p) /\ faults = 0 /\ InStartMinute /\ MinuteLimitBindsAlone) =>
            /\ commits < config.RequestsPerMinute - 1 => req[p].result.Allowed
            /\ commits = config.RequestsPerMinute - 1 =>
                  /\ ~req[p].result.Allowed
                  /\ req[p].status = StatusTooManyRequests

(***************************************************************************)
(* C13: counters of different window instances are independent.  When the  *)
(* clock enters a new day, the day counter reads 0 whatever was counted    *)
(* the day before; when it enters a new minute, the minute counter reads 0 *)
(* and the caller is admitted exactly when the hour, day and monthly       *)
(* counters are below their limits, so that 2 * limit requests can be      *)
(* admitted across one minute boundary.                                    *)
(***************************************************************************)
\* a read of the caller's counter of the window at the instant t
ReadAt(s, t, k, window) == GetRateLimit(s, k, getWindowKey(t, window), TRUE)

Incremented(p, i) ==
    IF i = 0 THEN {}
    ELSE { rateKey(req[p].apiKey, getWindowKey(req[p].inow, incrWindows[j].window)) :
             j \in 1..(i - 1) }
         \cup { CHOOSE key \in req[p].incs : key[1] = "quota" }

C14_PartialCommit ==
    [][ \A p \in Procs :
          /\ req[p].pc = "inc_quota" => req[p].incs = {}
          /\ req[p].pc = "inc_win" =>
                /\ \E t \in req[p].inow..now : quotaKey(req[p].apiKey, t) \in req[p].incs
                /\ req[p].incs = Incremented(p, req[p].w)
          /\ (~req[p].incErr /\ req'[p].incErr) =>
                /\ req[p].pc \in {"inc_quota", "inc_win"}
                /\ req'[p].pc = "proxy"
                /\ req'[p].incs = req[p].incs
                /\ store' = store
          /\ (req[p].incErr /\ req'[p] # req[p]) =>
                /\ req[p].pc \in {"proxy", "done"}
                /\ req'[p].pc # "proxy" => req'[p].pc \in {"done", "idle"}
                /\ store' = store
      ]_vars

\* a commit has failed at the hour counter: the monthly and the minute
\* counters stay incremented, the hour and day counters were never created
C14_Witness ==
    \E p \in Procs :
        /\ req[p].incErr
        /\ Cardinality(req[p].incs) = 2
        /\ \A key \in req[p].incs : Counter(key) = 1
        /\ DOMAIN store = req[p].incs

(***************************************************************************)
(* C15: a commit that returns success has incremented by exactly 1 each of *)
(* the caller's four counters (the monthly quota of the current month, the *)
(* minute, hour and day counters of the current buckets) and has changed   *)
(* no other counter; no increment is repeated, so one commit never adds    *)
(* more than 1 to a counter.                                               *)
(***************************************************************************)
ValueIn(s, key) == IF key \in DOMAIN s THEN s[key].val ELSE 0

\* the four counters of the caller k at the instant t
CountersOf(k, t) ==
    { <<"quota", k, monthBucket(t)>>, <<"rate", k, minuteBucket(t)>>,
      <<"rate", k, hourBucket(t)>>, <<"rate", k, dayBucket(t)>> }

C15_CommitIncrementsEachOnce ==
    [][ \A p \in Procs :
          /\ req'[p].incs # req[p].incs /\ req'[p].incs # {} =>
                \E key \in CountersOf(req[p].apiKey, now) \ req[p].incs :
                    /\ req'[p].incs = req[p].incs \cup {key}
                    /\ ValueIn(store', key) = ValueIn(store, key) + 1
                    /\ DOMAIN store' = DOMAIN store \cup {key}
                    /\ \A other \in DOMAIN store \ {key} : store'[other] = store[other]
          /\ (req[p].pc = "inc_win" /\ commits' = commits + 1) =>
                req'[p].incs = CountersOf(req[p].apiKey, now)
      ]_vars

\* the second commit of a caller has returned success: each of the four
\* counters stands at 2
C15_Witness ==
    \E p \in Procs :
        /\ req[p].pc = "proxy" /\ ~req[p].incErr
        /\ req[p].incs = CountersOf(req[p].apiKey, now)
        /\ \A key \in req[p].incs : Counter(key) = 2
        /\ commits = 2

(***************************************************************************)
(* C16: check is read-only: whatever its outcome (allow, deny or error),   *)
(* every step of a check leaves the value and the expiry of every counter  *)
(* in the store unchanged.                                                 *)
(***************************************************************************)
C16_CheckIsReadOnly ==
    [][ \A p \in Procs :
          (req[p].pc \in {"chk_quota", "chk_win"} /\ req'[p] # req[p]) =>
              store' = store
      ]_vars

\* a check has denied a caller whose four counters are in the store, each
\* with an expiry
C16_Witness ==
    \E p \in Procs :
        /\ req[p].pc = "done"
        /\ req[p].result.Window # "" /\ ~req[p].result.Allowed
        /\ \A key \in CountersOf(req[p].apiKey, now) :
              key \in DOMAIN store /\ store[key].ttl

(***************************************************************************)
(* C17: the report of current usage never mutates and never denies: a      *)
(* request on /api/rate-limit-info leaves every counter value and expiry   *)
(* unchanged, goes through no rate-limit check, and answers 200 with the   *)
(* used/limit of the quota and the current/limit of the minute, hour and   *)
(* day windows even when the quota or a window is exhausted; it fails      *)
(* only when a read of the store fails.                                    *)
(***************************************************************************)
\* the string is a decimal integer: an optional sign and at least one digit
IsInteger(str) ==
    LET DecimalDigit == {"0", "1", "2", "3", "4", "5", "6", "7", "8", "9"}
        unsigned(u) == Len(u) >= 1 /\ \A i \in 1..Len(u) : u[i] \in DecimalDigit
    IN  /\ Len(str) >= 1
        /\ IF str[1] \in {"+", "-"} THEN unsigned(Tail(str)) ELSE unsigned(str)

\* one of the caller's current counters holds a value that is not an integer
Malformed(s, k, t) ==
    \E key \in CountersOf(k, t) : key \in DOMAIN s /\ ~IsInteger(s[key].str)

\* goroutine p serves, in this step, an authenticated request for the report
InfoStep(p) ==
    /\ req[p].pc = "idle"
    /\ req'[p].route = "/api/rate-limit-info"
    /\ req'[p].apiKey # ""

C17_InfoNeverMutatesNeverDenies ==
    [][ \A p \in Procs :
          InfoStep(p) =>
            LET r == req'[p]
                k == r.apiKey
                lim == r.info.rate_limits
            IN  /\ store' = store
                /\ r.pc = "done" /\ r.result = NoResult /\ r.incs = {}
                /\ r.status \in {StatusOK, StatusInternalServerError}
                /\ r.status = StatusInternalServerError <=>
                      (faults' # faults \/ Malformed(store, k, now))
                /\ r.status = StatusOK =>
                      /\ r.info.monthly_quota =
                            [used |-> QuotaCount(k, now), limit |-> config.MonthlyQuota]
                      /\ lim.minute.current = MinuteCount(k, now)
                      /\ lim.minute.limit = config.RequestsPerMinute
                      /\ lim.hour.current = HourCount(k, now)
                      /\ lim.hour.limit = config.RequestsPerHour
                      /\ lim.day.current = DayCount(k, now)
                      /\ lim.day.limit = config.RequestsPerDay
      ]_vars

\* the report is given to a caller whose monthly quota and minute window
\* are exhausted
C17_Witness ==
    \E p \in Procs :
        /\ req[p].route = "/api/rate-limit-info"
        /\ req[p].status = StatusOK /\ req[p].pc = "done"
        /\ req[p].info.monthly_quota.used >= config.MonthlyQuota
        /\ req[p].info.rate_limits.minute.current >= config.RequestsPerMinute
        /\ ~CheckRateLimit(store, now, req[p].apiKey).Allowed

(***************************************************************************)
(* C18: a read of a window counter or of the monthly quota whose key is    *)
(* not in the store (never incremented, deleted or expired) returns 0 and  *)
(* no error; a caller without stored counters is allowed whenever all      *)
(* configured limits are >= 1, and a caller whose rate keys are gone is    *)
(* admitted again while its monthly quota lasts.                           *)
(***************************************************************************)
\* the rate keys of the caller k for the instant t
RateKeysOf(k, t) == { key \in CountersOf(k, t) : key[1] = "rate" }

C18_ZeroStateRead ==
    \A k \in APIKeys :
        /\ \A window \in {time_Minute, time_Hour, 24 * time_Hour} :
              rateKey(k, getWindowKey(now, window)) \notin DOMAIN store =>
                  GetRateLimit(store, k, getWindowKey(now, window), TRUE)
                      = [err |-> FALSE, val |-> 0]
        /\ quotaKey(k, now) \notin DOMAIN store =>
              GetMonthlyQuota(store, now, k, TRUE) = [err |-> FALSE, val |-> 0]
        /\ (RateKeysOf(k, now) \cap DOMAIN store = {}
                /\ config.RequestsPerMinute >= 1 /\ config.RequestsPerHour >= 1
                /\ config.RequestsPerDay >= 1
                /\ IF quotaKey(k, now) \in DOMAIN store
                   THEN QuotaCount(k, now) < config.MonthlyQuota
                   ELSE config.MonthlyQuota >= 1) =>
              CheckRateLimit(store, now, k).Allowed

\* a caller is admitted again once its rate keys have expired, its monthly
\* quota key still being in the store
C18_Witness ==
    \E p \in Procs :
        /\ req[p].pc = "inc_quota" /\ req[p].result.Allowed
        /\ commits >= 1
        /\ QuotaCount(req[p].apiKey, now) >= 1
        /\ \A key \in DOMAIN store : key[1] # "rate"
        /\ dayBucket(now) = dayBucket(Date(2024, 3, 15, 10, 30, 0))

(***************************************************************************)
(* C19: when the stored value of a window counter or of the monthly quota  *)
(* is not an integer, the read returns an error, never 0; check returns    *)
(* that error and no verdict when it reads the value (an exhausted counter *)
(* read before it ends the check first), and the report of usage returns   *)
(* the error and no snapshot.                                              *)
(***************************************************************************)
\* CheckRateLimit as one uninterrupted call: the request record it leaves
CheckOutcome(s, t, k) ==
    RunCheck(BeginCheck([NewRequest EXCEPT !.apiKey = k], t), s, t)

\* the keys check reads for the caller k at the instant t, in its order,
\* and the limit of each
CheckOrder(k, t) ==
    << [key |-> <<"quota", k, monthBucket(t)>>, limit |-> config.MonthlyQuota],
       [key |-> <<"rate", k, minuteBucket(t)>>, limit |-> config.RequestsPerMinute],
       [key |-> <<"rate", k, hourBucket(t)>>, limit |-> config.RequestsPerHour],
       [key |-> <<"rate", k, dayBucket(t)>>, limit |-> config.RequestsPerDay] >>

NotAnInteger(s, key) == key \in DOMAIN s /\ ~IsInteger(s[key].str)

C19_MalformedValueIsAnError ==
    \A k \in APIKeys :
        LET order == CheckOrder(k, now)
            bad == {i \in 1..4 : NotAnInteger(store, order[i].key)}
            out == {i \in 1..4 : /\ ~NotAnInteger(store, order[i].key)
                                  /\ Counter(order[i].key) >= order[i].limit}
            chk == CheckOutcome(store, now, k)
        IN  /\ 1 \in bad => GetMonthlyQuota(store, now, k, TRUE).err
            /\ \A i \in bad \ {1} :
                  GetRateLimit(store, k, order[i].key[3], TRUE).err
            /\ (\E i \in bad : \A j \in out : i < j) =>
                  chk.err /\ chk.result = NoResult
            /\ bad # {} =>
                  /\ ~chk.result.Allowed
                  /\ GetRateLimitInfo(store, now, k, 0) = [err |-> TRUE, info |-> NoInfo]

\* a request on /proxy is answered 500: its check has read a minute counter
\* that holds a string which is not a number
C19_Witness ==
    \E p \in Procs :
        /\ req[p].route = "/proxy" /\ req[p].err
        /\ req[p].status = StatusInternalServerError
        /\ NotAnInteger(store, <<"rate", req[p].apiKey, minuteBucket(now)>>)
        /\ QuotaCount(req[p].apiKey, now) >= 1

EndOfHour == Date(2024, 3, 15, 11, 0, 0) - 1

EndOfDay == Date(2024, 3, 16, 0, 0, 0) - 1

EndOfFebruary == Date(2024, 3, 1, 0, 0, 0) - 1

EndOfYear == Date(2025, 1, 1, 0, 0, 0) - 1

\* one second and three quarters before the end of January 2024
NearEndOfMonth == Date(2024, 2, 1, 0, 0, 0) - (2 * time_Second - 1)

TimeStarts ==
    { Date(2024, 3, 15, 10, 30, 0), EndOfMinute, EndOfHour, EndOfDay,
      EndOfMonth, EndOfFebruary, EndOfYear, NearEndOfMonth }

TimeDeltas == {1, time_Second, time_Minute, time_Hour, 24 * time_Hour}

\* the minute limit binds first, then the quota; the day limit binds first
TimePolicies == { Policy(1, 2, 2, 2), Policy(2, 2, 1, 2) }

InitTime ==
    /\ now \in TimeStarts
    /\ store = << >>
    /\ config \in TimePolicies
    /\ conc = 1
    /\ req = [p \in Procs |-> NewRequest]
    /\ started = 0
    /\ advanced = 0
    /\ faults = 0
    /\ commits = 0

\* the store answers every operation
NextTime ==
    \/ \E header \in APIKeys : Arrive(1, header)
    \/ ReadQuota(1, TRUE)
    \/ ReadWindow(1, TRUE)
    \/ IncrQuota(1, TRUE)
    \/ IncrWindow(1, TRUE)
    \/ \E outcome \in UpstreamOutcomes, hdrs \in UpstreamHeaders :
          Proxy(1, outcome, hdrs)
    \/ Finish(1)
    \/ \E d \in TimeDeltas : Pass(d)

SpecTime == InitTime /\ [][NextTime]_vars


\* the lengths of the windows the limiter names
WindowLengths == {time_Minute, time_Hour, 24 * time_Hour}

\* distances between two timestamps: inside a second, a minute, an hour, a
\* day, a month and a year apart, and back in time
Offsets ==
    { 0, 1, time_Second, time_Minute, time_Hour, 24 * time_Hour,
      31 * 24 * time_Hour, 365 * 24 * time_Hour, 0 - 1, 0 - time_Second,
      0 - time_Minute }

\* the key string of the bucket of t
windowString(t, window) == formatWindowKey(getWindowKey(t, window))

\* the keys and reset times of the timestamps t and u agree exactly for the
\* window kinds of which t and u share the bucket
Aligned(t, u) ==
    \A W \in WindowLengths :
       LET same == (t \div W) = (u \div W)
           key == getWindowKey(t, W)
           ukey == getWindowKey(u, W)
       IN  /\ (key = ukey) <=> same
           /\ (formatWindowKey(key) = formatWindowKey(ukey)) <=> same
           /\ (getWindowResetTime(t, W) = getWindowResetTime(u, W)) <=> same
           /\ \A W2 \in WindowLengths \ {W} :
                 LET other == getWindowKey(u, W2)
                 IN  /\ key # other
                     /\ formatWindowKey(key) # formatWindowKey(other)

(***************************************************************************)
(* C21: the timestamp of a check and any other timestamp derive the same   *)
(* bucket key and the same reset time for a window kind exactly when they  *)
(* fall in the same calendar minute, hour or day; a timestamp after a      *)
(* minute boundary never shares the minute key of one before it; keys of   *)
(* different window kinds never coincide.                                  *)
(***************************************************************************)
C21_BucketAlignment ==
    \A p \in Procs :
       req[p].pc = "chk_quota" =>
          \A d \in Offsets : Aligned(req[p].now, req[p].now + d)

\* two requests one second apart, before and after a minute boundary, were
\* counted under two minute keys and one hour key
C21_Witness ==
    \E k \in APIKeys :
       LET u == now - time_Second
       IN  /\ Minute(u) # Minute(now)
           /\ windowString(u, time_Minute) # windowString(now, time_Minute)
           /\ rateKey(k, getWindowKey(u, time_Minute)) \in DOMAIN store
           /\ rateKey(k, getWindowKey(now, time_Minute)) \in DOMAIN store
           /\ getWindowKey(u, time_Hour) = getWindowKey(now, time_Hour)
           /\ Counter(rateKey(k, getWindowKey(now, time_Hour))) = 2


\* the length of the window a verdict names
LengthOf(window) ==
    CASE window = "minute" -> time_Minute
      [] window = "hour" -> time_Hour
      [] window = "day" -> 24 * time_Hour

\* r is the start of the bucket of length W that follows the one of t
NextBucketStart(r, t, W) ==
    /\ r > t
    /\ r <= t + W
    /\ r % W = 0
    /\ (r - 1) \div W = t \div W
    /\ r \div W # t \div W

\* r is the first instant of the month that follows the one of t
NextMonthStart(r, t) ==
    /\ r > t
    /\ r <= t + 31 * 24 * time_Hour
    /\ r % (24 * time_Hour) = 0
    /\ Day(r) = 1
    /\ StartOfNext(r, t, monthBucket)

Callers == {"k1", "k1:2024-03"}

\* the characters of an API key
callerChars(apiKey) ==
    CASE apiKey = "k1" -> <<"k", "1">>
      [] apiKey = "k1:2024-03" ->
           <<"k", "1", ":", "2", "0", "2", "4", "-", "0", "3">>
      [] OTHER -> <<apiKey>>

\* the string of a store key: fmt.Sprintf("rate:%s:%s", apiKey, window) and
\* fmt.Sprintf("quota:%s:%s", apiKey, monthKey)
formatKey(key) ==
    (IF key[1] = "rate" THEN <<"r", "a", "t", "e">>
     ELSE <<"q", "u", "o", "t", "a">>)
    \o <<":">> \o callerChars(key[2]) \o <<":">> \o formatWindowKey(key[3])

CallerPolicies == { Policy(1, 2, 2, 2), Policy(2, 2, 2, 1) }

InitCallers ==
    /\ now = Date(2024, 3, 15, 10, 30, 0)
    /\ store = << >>
    /\ config \in CallerPolicies
    /\ conc = 1
    /\ req = [p \in Procs |-> NewRequest]
    /\ started = 0
    /\ advanced = 0
    /\ faults = 0
    /\ commits = 0

NextCallers ==
    \/ \E header \in Callers : Arrive(1, header)
    \/ \E ok \in BOOLEAN : ReadQuota(1, ok)
    \/ \E ok \in BOOLEAN : ReadWindow(1, ok)
    \/ \E ok \in BOOLEAN : IncrQuota(1, ok)
    \/ \E ok \in BOOLEAN : IncrWindow(1, ok)
    \/ \E outcome \in UpstreamOutcomes, hdrs \in UpstreamHeaders :
          Proxy(1, outcome, hdrs)
    \/ Finish(1)
    \/ \E header \in Callers, fail \in 0..(Len(infoWindows) + 1) :
          Info(1, header, fail)
    \/ \E d \in Deltas : Pass(d)

SpecCallers == InitCallers /\ [][NextCallers]_vars

\* the store keys the limiter addresses for caller k at the instant t
KeysOf(k, t) ==
    {quotaKey(k, t)} \cup {rateKey(k, getWindowKey(t, W)) : W \in WindowLengths}

\* the entry under a key, absent keys included
EntryOf(s, key) == IF key \in DOMAIN s THEN <<TRUE, s[key]>> ELSE <<FALSE>>

(***************************************************************************)
(* C23: a step of a request of caller A, on /proxy or on                   *)
(* /api/rate-limit-info, leaves every counter of every other caller B as   *)
(* it was, and with it the verdict of a check for B and the report B would *)
(* get; the key strings of two distinct callers are never equal.           *)
(***************************************************************************)
C23_CallerIsolation ==
    [][ now' = now =>
          LET A == IF req[1].apiKey # "" THEN req[1].apiKey ELSE req'[1].apiKey
          IN  \A B \in Callers \ {A} :
                 /\ \A key \in KeysOf(B, now) :
                       /\ EntryOf(store', key) = EntryOf(store, key)
                       /\ \A other \in KeysOf(A, now) :
                             formatKey(key) # formatKey(other)
                 /\ \A key \in DOMAIN store \cup DOMAIN store' :
                       key[2] = B => EntryOf(store', key) = EntryOf(store, key)
                 /\ CheckRateLimit(store', now, B) = CheckRateLimit(store, now, B)
                 /\ GetRateLimitInfo(store', now, B, 0)
                       = GetRateLimitInfo(store, now, B, 0) ]_vars

\* caller A has used up a limit and would be denied, while a request of
\* another caller is admitted
C23_Witness ==
    \E p \in Procs, A \in Callers :
       /\ JustChecked(p) /\ req[p].result.Allowed
       /\ req[p].apiKey # A
       /\ ~CheckRateLimit(store, now, A).Allowed
       /\ QuotaCount(A, now) >= 1


(***************************************************************************)
(* C24: the expiry that an increment of the monthly quota sets lets the    *)
(* counter of a month keep its accumulated value as long as the month      *)
(* lasts: inside one month a read of the quota never returns less than     *)
(* the read before it.                                                     *)
(***************************************************************************)
C24_QuotaKeptUntilMonthEnd ==
    [][ \A k \in APIKeys :
           monthBucket(now') = monthBucket(now) =>
              GetMonthlyQuota(store', now', k, TRUE).val
                 >= GetMonthlyQuota(store, now, k, TRUE).val ]_vars


\* no request is between two increments of its commit
NoCommitUnderWay == \A p \in Procs : req[p].pc \notin {"inc_quota", "inc_win"}

(***************************************************************************)
(* C25: whichever goroutine, of whichever gateway instance, serves a       *)
(* request, the verdict it gets is the one CheckRateLimit computes from    *)
(* the policy, the shared store and the clock alone; when the requests     *)
(* come one after the other, the counters stand at the number of           *)
(* committed requests, as they would with a single instance.               *)
(***************************************************************************)
C25_Stateless ==
    (conc = 1 /\ advanced = 0) =>
       /\ \A p \in Procs :
             JustChecked(p) =>
                req[p].result = CheckRateLimit(store, now, req[p].apiKey)
       /\ (NoCommitUnderWay /\ faults = 0) =>
             \A k \in APIKeys :
                /\ QuotaCount(k, now) = commits
                /\ MinuteCount(k, now) = commits
                /\ HourCount(k, now) = commits
                /\ DayCount(k, now) = commits

\* the second goroutine denies a request on the strength of the commit of
\* a request that the first goroutine is still serving
C25_Witness ==
    /\ conc = 1 /\ advanced = 0
    /\ req[1].pc \in {"proxy", "done"} /\ req[1].result.Allowed
    /\ Cardinality(req[1].incs) = 4
    /\ JustChecked(2) /\ ~req[2].result.Allowed
    /\ req[2].result = CheckRateLimit(store, now, req[2].apiKey)


\* request p came without an API key
Unauthenticated(p) == req[p].pc # "idle" /\ req[p].apiKey = ""

(***************************************************************************)
(* C26: a request on /proxy or on /api/rate-limit-info whose X-API-Key     *)
(* header is missing or empty is answered with 401 and is aborted before   *)
(* any check, commit, report or upstream exchange, the store staying as it *)
(* was; the limiter is only ever called, and the store only ever keyed,    *)
(* with a non-empty caller identity.                                       *)
(***************************************************************************)
C26_AuthenticationGate ==
    [][ \A p \in Procs :
           /\ Unauthenticated(p)' =>
                 /\ req'[p].status = StatusUnauthorized
                 /\ req'[p].code = "MISSING_API_KEY"
                 /\ req'[p].pc = "done" /\ req'[p].aborted
                 /\ req'[p].result = NoResult /\ ~req'[p].err
                 /\ req'[p].headers = NoHeaders
                 /\ req'[p].incs = {}
                 /\ req'[p].upstream = ""
                 /\ req'[p].info = NoInfo
                 /\ req[p].pc = "idle" => (store' = store /\ commits' = commits)
           /\ req'[p].pc \in {"chk_quota", "chk_win", "inc_quota", "inc_win", "proxy"}
                 => req'[p].apiKey # ""
           /\ (req'[p].result # NoResult \/ req'[p].info # NoInfo)
                 => req'[p].apiKey # ""
           /\ \A key \in DOMAIN store' : key[2] # "" ]_vars

\* with counters in the store, a request on /api/rate-limit-info without an
\* API key has been answered with 401
C26_Witness ==
    \E p \in Procs :
       /\ Unauthenticated(p)
       /\ req[p].route = "/api/rate-limit-info"
       /\ req[p].status = StatusUnauthorized
       /\ commits >= 1


(***************************************************************************)
(* C27: the response to a request whose check returned a verdict, allow or *)
(* deny, carries the six X-RateLimit-* headers, each the corresponding     *)
(* field of that verdict, the reset as an absolute timestamp; the response *)
(* after a failed check carries none of them.                              *)
(***************************************************************************)
C27_HeadersMirrorVerdict ==
    \A p \in Procs :
       req[p].pc = "done" /\ req[p].route = "/proxy" =>
          IF req[p].result # NoResult
          THEN /\ \A n \in HeaderNames : req[p].headers[n] # << >>
               /\ req[p].headers = RateLimitHeaders(req[p].result)
               /\ req[p].headers["X-RateLimit-Reset"]
                     = FormatRFC3339(req[p].result.ResetTime)
          ELSE req[p].headers = NoHeaders


(***************************************************************************)
(* C28: when a check for a caller is denied on the minute, hour or day     *)
(* window, a check for the same caller made later, before the reset time   *)
(* of that verdict, is denied as well.                                     *)
(***************************************************************************)
C28_DenialPersists ==
    [][ \A k \in APIKeys :
           LET v == CheckRateLimit(store, now, k)
           IN  (/\ ~v.Allowed
                /\ v.Window \in {"minute", "hour", "day"}
                /\ now' < v.ResetTime)
                  => ~CheckRateLimit(store', now', k).Allowed ]_vars


\* the windows a denial can name
WindowNames == {"monthly", "minute", "hour", "day"}

\* the configured limit of a named window
LimitNamed(W) ==
    CASE W = "monthly" -> config.MonthlyQuota
      [] W = "minute" -> config.RequestsPerMinute
      [] W = "hour" -> config.RequestsPerHour
      [] W = "day" -> config.RequestsPerDay

\* the calendar bucket of t for a named window
BucketNamed(t, W) ==
    CASE W = "monthly" -> monthBucket(t)
      [] W = "minute" -> minuteBucket(t)
      [] W = "hour" -> hourBucket(t)
      [] W = "day" -> dayBucket(t)

\* what the check reads for a named window on the store s at the instant t
CountNamed(s, t, k, W) ==
    IF W = "monthly" THEN GetMonthlyQuota(s, t, k, TRUE).val
    ELSE ReadAt(s, t, k, LengthOf(W)).val

(***************************************************************************)
(* C29: when a check is denied on a window W with reset time R, then at    *)
(* any instant from R on the bucket that caused the denial is no longer    *)
(* the current one and the counter the check reads for W is fresh: the     *)
(* check is allowed exactly when the limit of W is positive and the other  *)
(* windows and the monthly quota are below their limits.                   *)
(***************************************************************************)
C29_ReadmissionAtReset ==
    [][ \A k \in APIKeys :
           LET v == CheckRateLimit(store, now, k)
           IN  (~v.Allowed /\ v.Window \in WindowNames /\ now' >= v.ResetTime) =>
                  /\ BucketNamed(now', v.Window) # BucketNamed(now, v.Window)
                  /\ CountNamed(store', now', k, v.Window) = 0
                  /\ CheckRateLimit(store', now', k).Allowed <=>
                        /\ LimitNamed(v.Window) > 0
                        /\ \A X \in WindowNames \ {v.Window} :
                              CountNamed(store', now', k, X) < LimitNamed(X) ]_vars

\* a request is admitted in a new minute while the counter of the minute
\* before, still in the store, stands at its limit
C29_Witness ==
    \E p \in Procs :
       /\ JustChecked(p) /\ req[p].result.Allowed
       /\ minuteBucket(now - 1) # minuteBucket(now)
       /\ MinuteCount(req[p].apiKey, now - 1) >= config.RequestsPerMinute


\* the positions that may follow a position of the handler chain
Successors(pc) ==
    CASE pc = "idle" -> {"chk_quota", "done"}
      [] pc = "chk_quota" -> {"chk_win", "done"}
      [] pc = "chk_win" -> {"chk_win", "inc_quota", "done"}
      [] pc = "inc_quota" -> {"inc_win", "proxy"}
      [] pc = "inc_win" -> {"inc_win", "proxy"}
      [] pc = "proxy" -> {"done"}
      [] pc = "done" -> {"idle"}

UpstreamStatus(outcome) ==
    CASE outcome = "200" -> StatusOK
      [] outcome = "500" -> StatusInternalServerError
      [] outcome = "unavailable" -> StatusBadGateway

\* the codes of the responses the rate limiter writes
LimiterCodes ==
    {"RATE_LIMIT_ERROR", "RATE_LIMIT_EXCEEDED", "MONTHLY_QUOTA_EXCEEDED",
     "INTERNAL_ERROR"}

(***************************************************************************)
(* C31: when the commit of an admitted request fails, on its first         *)
(* increment or on a later one, the request is not aborted: it goes on to  *)
(* Proxy, and its response is the one of the upstream exchange, never a    *)
(* response of the rate limiter.                                           *)
(***************************************************************************)
C31_CommitFailureIsNotFatal ==
    \A p \in Procs :
       req[p].incErr =>
          /\ req[p].pc \in {"proxy", "done"}
          /\ req[p].result.Allowed
          /\ ~req[p].aborted
          /\ req[p].code \notin LimiterCodes
          /\ req[p].pc = "done" =>
                /\ req[p].upstream \in UpstreamOutcomes
                /\ req[p].status = UpstreamStatus(req[p].upstream)

\* the commit of a request failed after some of its increments, and the
\* client has the 200 of the upstream service
C31_Witness ==
    \E p \in Procs :
       /\ req[p].incErr /\ req[p].pc = "done"
       /\ req[p].incs # {} /\ Cardinality(req[p].incs) < 1 + Len(incrWindows)
       /\ req[p].upstream = "200" /\ req[p].status = StatusOK


\* the monthly quota of caller k is at least each of its current window
\* counters
Dominates(s, t, k) ==
    LET quota == GetMonthlyQuota(s, t, k, TRUE).val
    IN  \A W \in WindowLengths : quota >= ReadAt(s, t, k, W).val

\* the step stays in the calendar month and deletes no monthly key
KeepsMonth ==
    /\ monthBucket(now') = monthBucket(now)
    /\ \A key \in DOMAIN store : key[1] = "quota" => key \in DOMAIN store'

(***************************************************************************)
(* C32: along every interleaving of commits, commits that fail part-way    *)
(* included, as long as the clock stays in one calendar month and no       *)
(* monthly key is deleted, the monthly quota counter of a caller is at     *)
(* least its current minute, hour and day counter.                         *)
(***************************************************************************)
C32_QuotaDominatesWindows ==
    [][ (store' # store \/ now' # now) =>
           \A k \in APIKeys :
              (KeepsMonth /\ Dominates(store, now, k))
                 => Dominates(store', now', k) ]_vars

\* after a commit that failed part-way, the quota of the caller stands
\* above its minute counter, which is not 0
C32_Witness ==
    \E p \in Procs, k \in APIKeys :
       /\ req[p].incErr /\ req[p].apiKey = k
       /\ MinuteCount(k, now) >= 1
       /\ QuotaCount(k, now) > MinuteCount(k, now)
       /\ Dominates(store, now, k)


(***************************************************************************)
(* A sequential client of both routes while the clock runs, also between   *)
(* the check and the commit of a request; every limit is at least 1 and    *)
(* nobody else writes to the store.                                        *)
(***************************************************************************)
ReportPolicies ==
    { Policy(1, 1, 1, 1), Policy(1, 2, 2, 2), Policy(2, 1, 2, 2),
      Policy(2, 2, 1, 2) }

InitReport ==
    /\ now \in {EndOfMinute, EndOfMonth}
    /\ store = << >>
    /\ config \in ReportPolicies
    /\ conc = 1
    /\ req = [p \in Procs |-> NewRequest]
    /\ started = 0
    /\ advanced = 0
    /\ faults = 0
    /\ commits = 0

NextReport ==
    \/ \E header \in APIKeys : Arrive(1, header)
    \/ \E ok \in BOOLEAN : ReadQuota(1, ok)
    \/ \E ok \in BOOLEAN : ReadWindow(1, ok)
    \/ \E ok \in BOOLEAN : IncrQuota(1, ok)
    \/ \E ok \in BOOLEAN : IncrWindow(1, ok)
    \/ \E outcome \in UpstreamOutcomes, hdrs \in UpstreamHeaders :
          Proxy(1, outcome, hdrs)
    \/ Finish(1)
    \/ \E header \in APIKeys, fail \in 0..(Len(infoWindows) + 1) :
          Info(1, header, fail)
    \/ Tick
    \/ \E d \in Deltas : Pass(d)

SpecReport == InitReport /\ [][NextReport]_vars

\* request p has received a report from /api/rate-limit-info
Reported(p) ==
    /\ req[p].pc = "done"
    /\ req[p].route = "/api/rate-limit-info"
    /\ req[p].status = StatusOK

\* the named windows of a report
ReportWindows == {"minute", "hour", "day"}

(***************************************************************************)
(* C33: for the minute, hour and day windows GetRateLimitInfo reports the  *)
(* counter of the current bucket as current and limit - current as         *)
(* remaining; with requests served one at a time and every limit at least  *)
(* 1, the remaining is never negative, in the reports given and in the     *)
(* report any instant would give.                                          *)
(***************************************************************************)
C33_InfoRemaining ==
    /\ \A p \in Procs :
          Reported(p) =>
             \A W \in ReportWindows :
                LET e == req[p].info.rate_limits[W]
                IN  /\ e.limit = LimitNamed(W)
                    /\ e.remaining = e.limit - e.current
                    /\ e.current >= 0
                    /\ e.remaining >= 0
    /\ \A k \in APIKeys :
          LET got == GetRateLimitInfo(store, now, k, 0)
          IN  ~got.err =>
                 \A W \in ReportWindows :
                    LET e == got.info.rate_limits[W]
                    IN  /\ e.current = CountNamed(store, now, k, W)
                        /\ e.remaining = LimitNamed(W) - CountNamed(store, now, k, W)
                        /\ e.remaining >= 0

\* a report shows a minute window used up: current at the limit, remaining 0
C33_Witness ==
    \E p \in Procs :
       /\ Reported(p)
       /\ req[p].info.rate_limits.minute.current >= 1
       /\ req[p].info.rate_limits.minute.remaining = 0
       /\ req[p].info.rate_limits.day.remaining >= 1

=============================================================================
